---- MODULE Spec2Model ----
(***************************************************************************)
(* Packet fragmentation and reassembly (protocol2 example 002).            *)
(*                                                                         *)
(* The model follows src/002_packet_fragmentation_and_reassembly.cpp:      *)
(* the PacketBuffer (Advance, ProcessFragment, ProcessPacket,              *)
(* ReceivePackets), the FragmentPacket wire codec and                      *)
(* SplitPacketIntoFragments.                                               *)
(*                                                                         *)
(* Byte strings are kept as sequences of runs.  A run                      *)
(* [src, off, len] stands for the len bytes src[off .. off+len-1] of a     *)
(* named source buffer, so that a memcpy of a contiguous range is a slice  *)
(* of runs and a concatenation of copies is a concatenation of runs.       *)
(* ByteAt gives the value of every byte of every source and Expand turns   *)
(* runs into the byte sequence they denote.                                *)
(***************************************************************************)
EXTENDS Integers, Sequences, FiniteSets, TLC

(***************************************************************************)
(* Program constants.                                                      *)
(***************************************************************************)
PacketBufferSize == 256
MaxFragmentSize == 1024
MaxFragmentsPerPacket == 256
MaxBufferedFragments == 256
MaxPacketSize == MaxFragmentSize * MaxFragmentsPerPacket
PacketFragmentHeaderBytes == 16
TEST_PACKET_NUM_TYPES == 4

(***************************************************************************)
(* Bounds of the model.                                                    *)
(***************************************************************************)
\* calls of the public operations in one behaviour of Spec
MaxCalls == 4
\* fragments delivered in one behaviour of SpecFill
MaxFill == 300

(***************************************************************************)
(* Fixed-width integers.                                                   *)
(***************************************************************************)
U8(x) == x % 256

U16(x) == x % 65536

\* the value of the low 16 bits of x read as a signed 16-bit integer
Signed16(x) == LET m == x % 65536 IN IF m >= 32768 THEN m - 65536 ELSE m

(***************************************************************************)
(* Sequence arithmetic (protocol2.h).                                      *)
(***************************************************************************)
sequence_greater_than(s1, s2) == Signed16(s1 - s2) > 0

sequence_less_than(s1, s2) == Signed16(s1 - s2) < 0

sequence_difference(s1, s2) == Signed16(s1 - s2)

(***************************************************************************)
(* Byte strings as runs.                                                   *)
(***************************************************************************)
\* the sources whose bytes are indeterminate (uninitialised heap memory):
\* one source per content a build can produce there
JunkSources == {"junk0", "junk1"}

\* the value of byte k of source src
ByteAt(src, k) ==
    CASE src = "payload" -> (k * 3 + 1) % 251
      [] src = "raw"     -> (k + 77) % 256
      [] src = "junk0"   -> 0
      [] src = "junk1"   -> 255
      [] OTHER           -> 0

Run(src, off, len) == [src |-> src, off |-> off, len |-> len]

\* the runs of len bytes of source src, starting at offset off
Bytes(src, off, len) == IF len <= 0 THEN <<>> ELSE <<Run(src, off, len)>>

RECURSIVE RunsLen(_)
RunsLen(runs) ==
    IF runs = <<>> THEN 0 ELSE Head(runs).len + RunsLen(Tail(runs))

\* the bytes [start, start+len) of a byte string
RECURSIVE Slice(_, _, _)
Slice(runs, start, len) ==
    IF len <= 0 \/ runs = <<>> THEN <<>>
    ELSE LET r == Head(runs) IN
         IF start >= r.len THEN Slice(Tail(runs), start - r.len, len)
         ELSE LET take == IF r.len - start < len THEN r.len - start ELSE len IN
              <<Run(r.src, r.off + start, take)>>
                  \o Slice(Tail(runs), 0, len - take)

\* the byte sequence a byte string denotes
RECURSIVE Expand(_)
Expand(runs) ==
    IF runs = <<>> THEN <<>>
    ELSE LET r == Head(runs) IN
         [k \in 1..r.len |-> ByteAt(r.src, r.off + k - 1)] \o Expand(Tail(runs))

\* n copies of a byte string, one after the other
RECURSIVE Repeat(_, _)
Repeat(runs, n) == IF n <= 0 THEN <<>> ELSE runs \o Repeat(runs, n - 1)

(***************************************************************************)
(* PacketBufferEntry and PacketBuffer.                                     *)
(*                                                                         *)
(* The arrays are kept as maps of their elements that are not zero, zero   *)
(* being what memset leaves: fragmentSize and fragmentData are functions   *)
(* on the fragment ids whose size is not 0 and whose pointer is not NULL,  *)
(* valid is the set of the indices i with valid[i] true, and entries is a  *)
(* function on the indices whose entry is not ZeroEntry.                   *)
(***************************************************************************)
ZeroEntry ==
    [sequence |-> 0, numFragments |-> 0, receivedFragments |-> 0,
     fragmentSize |-> <<>>, fragmentData |-> <<>>]

Indices == 0 .. (PacketBufferSize - 1)

\* entries[..].fragmentSize[j]
FragmentSizeAt(entry, j) ==
    IF j \in DOMAIN entry.fragmentSize THEN entry.fragmentSize[j] ELSE 0

\* entries[..].fragmentData[j] != NULL
HasFragmentData(entry, j) == j \in DOMAIN entry.fragmentData

\* valid[i]
ValidAt(pb, i) == i \in pb.valid

\* entries[i]
EntryAt(pb, i) == IF i \in DOMAIN pb.entries THEN pb.entries[i] ELSE ZeroEntry

\* the array entries with entries[i] = entry
EntriesWith(entries, i, entry) ==
    IF entry = ZeroEntry
    THEN [x \in DOMAIN entries \ {i} |-> entries[x]]
    ELSE (i :> entry) @@ entries

\* PacketBuffer() { memset( this, 0, sizeof( PacketBuffer ) ); }
NewPacketBuffer ==
    [currentSequence |-> 0,
     numFragments    |-> 0,
     valid           |-> {},
     entries         |-> <<>>]

(***************************************************************************)
(* PacketBuffer::Advance.                                                  *)
(***************************************************************************)
\* the indices of the valid entries whose sequence is older than the oldest
\* sequence of the window that ends at sequence
OldEntries(pb, sequence) ==
    LET oldestSequence == U16(sequence - PacketBufferSize + 1) IN
    {i \in Indices \cap pb.valid :
        sequence_less_than(EntryAt(pb, i).sequence, oldestSequence)}

\* the fragment buffers <<i, j>> the loop over j deletes in the entries I
DeletedFragments(pb, I) ==
    UNION {{<<i, j>> : j \in {k \in 0 .. (EntryAt(pb, i).numFragments - 1) :
                                  HasFragmentData(EntryAt(pb, i), k)}} : i \in I}

\* every valid entry is zeroed and marked invalid (the memset and the
\* assignment valid[i] = false stand outside the test on the sequence)
ClearedEntries(pb, sequence) ==
    [i \in {x \in DOMAIN pb.entries : ~ValidAt(pb, x)} |-> pb.entries[i]]

ClearedValid(pb, sequence) == {i \in pb.valid : ~ValidAt(pb, i)}

\* [abort, pb, freed]: abort names the assertion that failed, "none"
\* otherwise; freed is the number of fragment buffers delete [] released
Advance(pb, sequence) ==
    IF ~sequence_greater_than(sequence, pb.currentSequence)
    THEN [abort |-> "none", pb |-> pb, freed |-> 0]
    ELSE LET deleted == Cardinality(DeletedFragments(pb, OldEntries(pb, sequence))) IN
         \* assert( numFragments > 0 ) before each numFragments--
         IF deleted > 0 /\ pb.numFragments < deleted
         THEN [abort |-> "assert numFragments > 0", pb |-> pb, freed |-> 0]
         ELSE [abort |-> "none", freed |-> deleted,
               pb |-> [currentSequence |-> sequence,
                       numFragments    |-> pb.numFragments - deleted,
                       valid           |-> ClearedValid(pb, sequence),
                       entries         |-> ClearedEntries(pb, sequence)]]

(***************************************************************************)
(* PacketBuffer::ProcessFragment.                                          *)
(***************************************************************************)
\* the test on the member PacketBuffer::numFragments
TooManyBufferedFragmentsMember(pb, numFragments) ==
    pb.numFragments >= MaxBufferedFragments

\* "too many buffered fragments?": inside ProcessFragment the name
\* numFragments is the parameter, which hides the member of PacketBuffer
TooManyBufferedFragments(pb, numFragments) == numFragments >= MaxBufferedFragments

\* the member PacketBuffer::numFragments after the numFragments++ that ends
\* ProcessFragment: the increment acts on the parameter
CountAfterAccept(pb) == pb.numFragments

\* the test with ten times the size of the packet buffer
SequenceOutOfRangeWindow(packetSequence, currentSequence) ==
    sequence_difference(packetSequence, currentSequence) > 10 * PacketBufferSize

\* "packet sequence number wildly out of range from the current sequence?"
SequenceOutOfRange(packetSequence, currentSequence) ==
    sequence_difference(packetSequence, currentSequence) > 10 * 1024

\* no test of the number of fragments against the entry
DifferentNumFragmentsIgnored(entry, numFragments) == FALSE

\* "if the total number fragments is different for this packet vs. the entry"
DifferentNumFragments(entry, numFragments) == numFragments # entry.numFragments

\* no test for a fragment received twice
AlreadyReceivedNever(entry, fragmentId) == FALSE

\* "if this fragment has already been received"
AlreadyReceived(entry, fragmentId) == FragmentSizeAt(entry, fragmentId) # 0

\* entries[index].sequence / numFragments are bit fields of 16 and 8 bits
BindEntry(pb, index, packetSequence, numFragments) ==
    [pb EXCEPT
        !.entries = EntriesWith(pb.entries, index,
                        [EntryAt(pb, index) EXCEPT
                            !.sequence = U16(packetSequence),
                            !.numFragments = U8(numFragments)]),
        !.valid = pb.valid \cup {index}]

\* the fragment stored without entries[index].receivedFragments++
StoreFragmentUncounted(pb, index, fragmentData, fragmentSize, fragmentId) ==
    LET entry == EntryAt(pb, index) IN
    [pb EXCEPT
        !.entries = EntriesWith(pb.entries, index,
                        [entry EXCEPT
                            !.fragmentSize =
                                (fragmentId :> fragmentSize) @@ entry.fragmentSize,
                            !.fragmentData =
                                (fragmentId :> Slice(fragmentData, 0, fragmentSize))
                                    @@ entry.fragmentData]),
        !.numFragments = CountAfterAccept(pb)]

\* "add the fragment to the packet buffer"
StoreFragment(pb, index, fragmentData, fragmentSize, fragmentId) ==
    LET entry == EntryAt(pb, index) IN
    [pb EXCEPT
        !.entries = EntriesWith(pb.entries, index,
                        [entry EXCEPT
                            !.fragmentSize =
                                (fragmentId :> fragmentSize) @@ entry.fragmentSize,
                            !.fragmentData =
                                (fragmentId :> Slice(fragmentData, 0, fragmentSize))
                                    @@ entry.fragmentData,
                            !.receivedFragments = U8(entry.receivedFragments + 1)]),
        !.numFragments = CountAfterAccept(pb)]

\* [ret, error, abort, pb, allocated, freed]: ret is the value returned, error
\* the number the code prints with a rejection ("error 1" .. "error 10", 0
\* when accepted), allocated and freed the numbers of fragment buffers the
\* call got from new and released with delete []
ProcessFragment(pb, fragmentData, fragmentSize, packetSequence, fragmentId, numFragments) ==
    LET index == packetSequence % PacketBufferSize
        Reject(n, b, freed) == [ret |-> FALSE, error |-> n, abort |-> "none", pb |-> b,
                                allocated |-> 0, freed |-> freed]
        Abort(what) == [ret |-> FALSE, error |-> 0, abort |-> what, pb |-> pb,
                        allocated |-> 0, freed |-> 0]
    IN
    IF TooManyBufferedFragments(pb, numFragments) THEN Reject(1, pb, 0)
    ELSE IF fragmentSize <= 0 THEN Reject(2, pb, 0)
    ELSE IF fragmentSize > MaxFragmentSize THEN Reject(3, pb, 0)
    ELSE IF numFragments <= 0 \/ numFragments > MaxFragmentsPerPacket THEN Reject(4, pb, 0)
    ELSE IF fragmentId < 0 \/ fragmentId >= numFragments THEN Reject(5, pb, 0)
    ELSE IF fragmentId # numFragments - 1 /\ fragmentSize # MaxFragmentSize
         THEN Reject(6, pb, 0)
    ELSE IF SequenceOutOfRange(packetSequence, pb.currentSequence)
         THEN Reject(7, pb, 0)
    ELSE IF ValidAt(pb, index) /\ EntryAt(pb, index).sequence # packetSequence
         THEN Reject(8, pb, 0)
    ELSE LET adv == IF ValidAt(pb, index) THEN [abort |-> "none", pb |-> pb, freed |-> 0]
                    ELSE Advance(pb, packetSequence)
         IN
         IF adv.abort # "none" THEN Abort(adv.abort)
         ELSE IF ~ValidAt(pb, index) /\ EntryAt(adv.pb, index).receivedFragments # 0
              THEN Abort("assert receivedFragments == 0")
         ELSE LET bound == IF ValidAt(pb, index) THEN pb
                           ELSE BindEntry(adv.pb, index, packetSequence, numFragments)
                  entry == EntryAt(bound, index)
              IN
              IF DifferentNumFragments(entry, numFragments) THEN Reject(9, bound, adv.freed)
              ELSE IF AlreadyReceived(entry, fragmentId) THEN Reject(10, bound, adv.freed)
              ELSE IF U8(entry.receivedFragments + 1) > entry.numFragments
                   THEN Abort("assert receivedFragments <= numFragments")
              ELSE [ret |-> TRUE, error |-> 0, abort |-> "none",
                    allocated |-> 1, freed |-> adv.freed,
                    pb |-> StoreFragment(bound, index, fragmentData,
                                         fragmentSize, fragmentId)]

(***************************************************************************)
(* PacketBuffer::ReceivePackets.                                           *)
(***************************************************************************)
\* a packet counts as arrived with its first fragment
AllFragmentsArrivedAny(entry) == entry.receivedFragments # 0

\* "have all fragments arrived for this packet?"
AllFragmentsArrived(entry) == entry.receivedFragments = entry.numFragments

\* "what's the total size of this packet?"
RECURSIVE PacketSizeOf(_, _)
PacketSizeOf(entry, j) ==
    IF j >= entry.numFragments THEN 0
    ELSE FragmentSizeAt(entry, j) + PacketSizeOf(entry, j + 1)

\* the bytes the reconstruction loop writes to the new packet: for each j it
\* copies fragmentData[i] with fragmentSize[i], i being the position of the
\* outer loop over the window, not j
CopiedBytes(entry, i) ==
    IF HasFragmentData(entry, i)
    THEN Repeat(Slice(entry.fragmentData[i], 0, FragmentSizeAt(entry, i)),
                entry.numFragments)
    ELSE <<>>

\* The loop over the window.  Its turns are independent of one another:
\* turn i reads and writes entries[index] for its own index only (the 256
\* sequences of the window have 256 different indices), appends to
\* packetData and subtracts from numFragments.  Drained is the set of the
\* turns that return a packet.
\* the window walked from currentSequence down
SequenceAtNewestFirst(pb, i) == U16(pb.currentSequence - i)

\* the sequence turn i of the loop looks at
SequenceAt(pb, i) == U16(U16(pb.currentSequence - PacketBufferSize + 1) + i)

IndexAt(pb, i) == SequenceAt(pb, i) % PacketBufferSize

\* the turn that looks at entries[index]
TurnOf(pb, index) ==
    (index - U16(pb.currentSequence - PacketBufferSize + 1)) % PacketBufferSize

\* the turns that meet an entry bound to their sequence, complete or not
DrainedEveryEntry(pb) ==
    {i \in {TurnOf(pb, index) : index \in Indices \cap pb.valid} :
        /\ ValidAt(pb, IndexAt(pb, i))
        /\ EntryAt(pb, IndexAt(pb, i)).sequence = SequenceAt(pb, i)}

Drained(pb) ==
    {i \in {TurnOf(pb, index) : index \in Indices \cap pb.valid} :
        /\ ValidAt(pb, IndexAt(pb, i))
        /\ EntryAt(pb, IndexAt(pb, i)).sequence = SequenceAt(pb, i)
        /\ AllFragmentsArrived(EntryAt(pb, IndexAt(pb, i)))}

\* the packet turn i returns.  junk is the content of uninitialised memory:
\* the bytes of the new packet the copies leave unwritten.  sequence and
\* numFragments are what the code prints with "received all fragments for
\* packet".
PacketAt(pb, i, junk) ==
    LET entry      == EntryAt(pb, IndexAt(pb, i))
        packetSize == PacketSizeOf(entry, 0)
        copied     == CopiedBytes(entry, i)
        written    == RunsLen(copied)
    IN [size |-> packetSize,
        data |-> IF written >= packetSize THEN Slice(copied, 0, packetSize)
                 ELSE copied \o Bytes(junk, 0, packetSize - written),
        sequence |-> SequenceAt(pb, i),
        numFragments |-> entry.numFragments]

\* what stops turn i: a failed assertion, or the copies running past the end
\* of the new packet (undefined behaviour: overrun says whether that stops
\* the program or goes unnoticed)
AbortAt(pb, i, overrun) ==
    LET entry      == EntryAt(pb, IndexAt(pb, i))
        packetSize == PacketSizeOf(entry, 0)
    IN IF packetSize <= 0 THEN "assert packetSize > 0"
       ELSE IF packetSize > MaxPacketSize THEN "assert packetSize <= MaxPacketSize"
       ELSE IF RunsLen(CopiedBytes(entry, i)) > packetSize /\ overrun = "crash"
            THEN "heap overrun"
       ELSE "none"

\* the packets of the turns I, in the order of the loop
RECURSIVE PacketsOf(_, _, _)
PacketsOf(pb, I, junk) ==
    IF I = {} THEN <<>>
    ELSE LET i == CHOOSE x \in I : \A y \in I : x <= y IN
         <<PacketAt(pb, i, junk)>> \o PacketsOf(pb, I \ {i}, junk)

\* the fragment buffers <<index, j>> the loop "free all fragments" deletes in
\* the turns I (delete [] of a null pointer releases nothing)
ReleasedFragments(pb, I) ==
    UNION {{<<IndexAt(pb, i), j>> :
              j \in {k \in 0 .. (EntryAt(pb, IndexAt(pb, i)).numFragments - 1) :
                        HasFragmentData(EntryAt(pb, IndexAt(pb, i)), k)}} : i \in I}

\* the number of times the loop "free all fragments" runs numFragments--
RECURSIVE FreedFragments(_, _)
FreedFragments(pb, I) ==
    IF I = {} THEN 0
    ELSE LET i == CHOOSE x \in I : TRUE IN
         EntryAt(pb, IndexAt(pb, i)).numFragments + FreedFragments(pb, I \ {i})

\* [abort, pb, packets, freed]: packets is packetData[0 .. numPackets-1], freed
\* the number of fragment buffers released
ReceivePackets(pb, junk, overrun) ==
    LET D       == Drained(pb)
        stopped == {i \in D : AbortAt(pb, i, overrun) # "none"}
        indices == {IndexAt(pb, i) : i \in D}
    IN
    IF stopped # {}
    THEN [abort |-> AbortAt(pb, CHOOSE x \in stopped : \A y \in stopped : x <= y,
                            overrun),
          pb |-> pb, packets |-> <<>>, freed |-> 0]
    ELSE [abort |-> "none",
          freed |-> Cardinality(ReleasedFragments(pb, D)),
          pb |-> [currentSequence |-> pb.currentSequence,
                  numFragments    |-> pb.numFragments - FreedFragments(pb, D),
                  valid           |-> pb.valid \ indices,
                  entries         |-> [x \in DOMAIN pb.entries \ indices |->
                                          pb.entries[x]]],
          packets |-> PacketsOf(pb, D, junk)]

(***************************************************************************)
(* FragmentPacket: the wire format of a fragment packet.                   *)
(*   [crc32] (32 bits) | [sequence] (16 bits) | [packet type 0]            *)
(*   [fragment id] (8 bits) | [num fragments] (8 bits) | (pad) | <data>    *)
(* A packet buffer is the record of the fields its header bytes encode,    *)
(* the fragment data that follow the header, its size in bytes and the     *)
(* size of the allocation that holds it.                                   *)
(***************************************************************************)
ProtocolId == 1432778632

\* the bits serialize_int uses for a value of [min, max]
RECURSIVE BitsRequired(_, _)
BitsRequired(min, max) ==
    IF max - min <= 0 THEN 0 ELSE 1 + BitsRequired(0, (max - min) \div 2)

\* the bytes the header takes in the stream, after serialize_align
EncodedHeaderBytes ==
    (32 + 16 + BitsRequired(0, TEST_PACKET_NUM_TYPES - 1) + 8 + 8 + 7) \div 8

RECURSIVE RunsDigest(_)
RunsDigest(runs) ==
    IF runs = <<>> THEN 0
    ELSE LET r == Head(runs) IN
         (ByteAt(r.src, r.off) + 31 * r.len + 7 * r.off + 131 * RunsDigest(Tail(runs)))
             % 65536

\* calculate_crc32 over the protocol id and the packet with a zero crc32
\* field.  The digest is kept below 2^30, the integers of the checker being
\* of 32 bits: what matters of it is that writer and reader compute the same
\* function of the same bytes.
PacketChecksum(sequence, packetType, fragmentId, numFragments, data) ==
    ((ProtocolId % 65536) + 4099 * sequence + 257 * packetType + 17 * fragmentId
        + 3 * numFragments + RunsDigest(data)) % 1073741824

\* FragmentPacket::SerializeWrite and the crc32 written over the first four
\* bytes: sequence is a uint16_t, fragmentId and numFragments are uint8_t
WriteFragmentPacket(sequence, fragmentId, numFragments, fragmentData, fragmentSize) ==
    LET data == Slice(fragmentData, 0, fragmentSize) IN
    [size         |-> EncodedHeaderBytes + fragmentSize,
     alloc        |-> MaxFragmentSize + PacketFragmentHeaderBytes,
     crc32        |-> PacketChecksum(U16(sequence), 0, U8(fragmentId),
                                     U8(numFragments), data),
     sequence     |-> U16(sequence),
     packetType   |-> 0,
     fragmentId   |-> U8(fragmentId),
     numFragments |-> U8(numFragments),
     data         |-> data]

(***************************************************************************)
(* SplitPacketIntoFragments.                                               *)
(***************************************************************************)
NumFragmentsOf(packetSize) ==
    (packetSize \div MaxFragmentSize)
        + (IF packetSize % MaxFragmentSize # 0 THEN 1 ELSE 0)

\* the size of fragment i: src has advanced by MaxFragmentSize i times
FragmentSizeOf(packetSize, numFragments, i) ==
    IF i = numFragments - 1 THEN packetSize - i * MaxFragmentSize
    ELSE MaxFragmentSize

\* fragmentPackets[i] after the clean-up of a failed split: data = NULL and
\* size = 0
ResetFragmentPacket ==
    [size |-> 0, alloc |-> 0, crc32 |-> 0, sequence |-> 0, packetType |-> 0,
     fragmentId |-> 0, numFragments |-> 0, data |-> <<>>]

\* the elements of fragmentPackets the call wrote when SerializeWrite failed
\* for fragment i: the fragment packets 0 .. i-1 as written, which the
\* clean-up loop leaves alone (it runs j over 0 .. i-1 but deletes and resets
\* fragmentPackets[i] at every turn), and element i reset
AfterFailedWrite(written, i) ==
    [k \in 1 .. (i + 1) |-> IF k = i + 1 THEN ResetFragmentPacket ELSE written[k]]

\* [abort, ret, numFragments, fragmentPackets].  failing is the fragment for
\* which SerializeWrite returns false (-1: for none).  The clean-up releases
\* memory of new [] with delete, and more than once when i > 1: misdelete says
\* whether that stops the program or goes unnoticed.
SplitPacketIntoFragments(sequence, packetData, packetSize, failing, misdelete) ==
    LET numFragments == NumFragmentsOf(packetSize)
        Abort(what) == [abort |-> what, ret |-> FALSE, numFragments |-> 0,
                        fragmentPackets |-> <<>>]
        written ==
            [k \in 1 .. numFragments |->
                LET i == k - 1
                    fragmentSize == FragmentSizeOf(packetSize, numFragments, i)
                IN WriteFragmentPacket(sequence, i, numFragments,
                       Slice(packetData, i * MaxFragmentSize, fragmentSize),
                       fragmentSize)]
    IN
    IF packetSize <= 0 THEN Abort("assert packetSize > 0")
    ELSE IF ~(packetSize < MaxPacketSize) THEN Abort("assert packetSize < MaxPacketSize")
    ELSE IF numFragments <= 0 THEN Abort("assert numFragments > 0")
    ELSE IF numFragments > MaxFragmentsPerPacket
         THEN Abort("assert numFragments <= MaxFragmentsPerPacket")
    ELSE IF failing >= 0 /\ failing < numFragments
         THEN IF failing > 0 /\ misdelete = "crash"
              THEN Abort("delete of memory of new []")
              ELSE [abort |-> "none", ret |-> FALSE, numFragments |-> 0,
                    fragmentPackets |-> AfterFailedWrite(written, failing)]
    ELSE [abort |-> "none", ret |-> TRUE, numFragments |-> numFragments,
          fragmentPackets |-> written]

(***************************************************************************)
(* PacketBuffer::ProcessPacket.                                            *)
(***************************************************************************)
\* the bytes of the allocation that holds a packet: the header, the data and
\* the bytes of the allocation nothing wrote
BufferBytes(packet, junk) ==
    Bytes("header", 0, packet.size - RunsLen(packet.data))
        \o packet.data
        \o Bytes(junk, 0, packet.alloc - packet.size)

\* FragmentPacket::SerializeRead: [ok, fragmentSize]; the fragment size is
\* what is left of the stream after the header
SerializeRead(packet) ==
    IF packet.packetType # 0
    THEN [ok |-> packet.size * 8 >= 32 + 16 + BitsRequired(0, TEST_PACKET_NUM_TYPES - 1),
          fragmentSize |-> 0]
    ELSE IF packet.size < EncodedHeaderBytes THEN [ok |-> FALSE, fragmentSize |-> 0]
    ELSE LET fragmentSize == packet.size - EncodedHeaderBytes IN
         [ok |-> ~(fragmentSize <= 0 \/ fragmentSize > MaxFragmentSize),
          fragmentSize |-> fragmentSize]

\* the fragment data ProcessPacket hands to ProcessFragment
\* (data + PacketFragmentHeaderBytes)
FragmentDataOf(packet, fragmentSize, junk) ==
    Slice(BufferBytes(packet, junk), PacketFragmentHeaderBytes, fragmentSize)

\* ProcessPacket without the comparison of the checksums
ProcessPacketUnchecked(pb, packet, junk) ==
    LET read == SerializeRead(packet) IN
    IF ~read.ok THEN [ret |-> FALSE, error |-> 11, abort |-> "none", pb |-> pb,
                      allocated |-> 0, freed |-> 0]
    ELSE IF packet.packetType = 0
         THEN ProcessFragment(pb, FragmentDataOf(packet, read.fragmentSize, junk),
                              read.fragmentSize, packet.sequence,
                              packet.fragmentId, packet.numFragments)
         ELSE ProcessFragment(pb, Slice(BufferBytes(packet, junk), 0, packet.size),
                              packet.size, packet.sequence, 0, 1)

\* [ret, error, abort, pb, allocated, freed]: error 11 is "fragment packet
\* failed to serialize", error 12 is "crc32 mismatch"
ProcessPacket(pb, packet, junk) ==
    LET read == SerializeRead(packet) IN
    IF ~read.ok THEN [ret |-> FALSE, error |-> 11, abort |-> "none", pb |-> pb,
                      allocated |-> 0, freed |-> 0]
    ELSE IF PacketChecksum(packet.sequence, packet.packetType, packet.fragmentId,
                           packet.numFragments, packet.data) # packet.crc32
         THEN [ret |-> FALSE, error |-> 12, abort |-> "none", pb |-> pb,
               allocated |-> 0, freed |-> 0]
    ELSE IF packet.packetType = 0
         THEN ProcessFragment(pb, FragmentDataOf(packet, read.fragmentSize, junk),
                              read.fragmentSize, packet.sequence,
                              packet.fragmentId, packet.numFragments)
         ELSE ProcessFragment(pb, Slice(BufferBytes(packet, junk), 0, packet.size),
                              packet.size, packet.sequence, 0, 1)

(***************************************************************************)
(* The program as a state machine: one static PacketBuffer and a caller    *)
(* that splits packets, hands fragment packets and fragments to the        *)
(* buffer in any order, any number of times, and drains it.                *)
(***************************************************************************)
VARIABLES
    packetBuffer,     \* static PacketBuffer packetBuffer
    fragmentPackets,  \* the fragment packets of the last split
    sentPacket,       \* the sequence and size of the packet last split
    packets,          \* the packets the last ReceivePackets returned
    lastCall,         \* the last call made and what it returned
    aborted,          \* the assertion that stopped the program, or "none"
    calls,            \* the number of calls made
    delivered,        \* how often each fragment packet of the last split was delivered
    roundTrip,        \* where the caller stands in a split, deliver all, drain round
    withheld,         \* the fragment the network never delivers, if any
    heap              \* the number of fragment buffers allocated and not released

vars == <<packetBuffer, fragmentPackets, sentPacket, packets, lastCall, aborted,
          calls, delivered, roundTrip, withheld, heap>>

\* the inputs of the caller
Sequences == {0, 1, 257, 65535, 20000}

SplitSequences == {0, 65281}

PacketSizes == {1, MaxFragmentSize + 1, MaxPacketSize}

\* the fragment for which SerializeWrite returns false (-1: it never does)
Failing == {-1, 1}

\* numFragments, fragmentId and fragmentSize of the fragments handed to
\* ProcessFragment: well-formed ones and one for each way of being malformed
FragmentShapes ==
    {[n |-> 1, id |-> 0, size |-> 1],
     [n |-> 2, id |-> 0, size |-> MaxFragmentSize],
     [n |-> 2, id |-> 1, size |-> 1],
     [n |-> 1, id |-> 0, size |-> 0],
     [n |-> 1, id |-> 0, size |-> MaxFragmentSize + 1],
     [n |-> 0, id |-> 0, size |-> 1],
     [n |-> MaxFragmentsPerPacket, id |-> 0, size |-> MaxFragmentSize],
     [n |-> 1, id |-> 1, size |-> 1],
     [n |-> 2, id |-> 0, size |-> 1]}

\* the bytes of the fragments handed to ProcessFragment directly
RawData(size) == Bytes("raw", 0, size)

\* main's numFragments: the number of fragment packets the last split
\* reported
NumFragments == Len(delivered)

NothingWithheld == [sequence |-> 0, n |-> 0, id |-> 0]

\* the fragment <<sequence, numFragments, fragmentId>> is the one withheld
IsWithheld(sequence, numFragments, fragmentId) ==
    /\ withheld.n > 0
    /\ withheld = [sequence |-> sequence, n |-> numFragments, id |-> fragmentId]

NoValidEntry(pb) == Indices \cap pb.valid = {}

InitWith(pb, w) ==
    /\ packetBuffer = pb
    /\ fragmentPackets = <<>>
    /\ sentPacket = [sequence |-> 0, size |-> 0]
    /\ packets = <<>>
    /\ lastCall = [op |-> "none", ret |-> FALSE, error |-> 0]
    /\ aborted = "none"
    /\ calls = 0
    /\ delivered = <<>>
    /\ roundTrip = "idle"
    /\ withheld = w
    /\ heap = 0

Init == InitWith(NewPacketBuffer, NothingWithheld)

\* what every call does to the counters of the caller
Called(op, ret, error, abort) ==
    /\ calls' = calls + 1
    /\ lastCall' = [op |-> op, ret |-> ret, error |-> error]
    /\ aborted' = abort
    /\ UNCHANGED withheld

\* a call of SplitPacketIntoFragments
Split(sequence, packetSize, failing, misdelete) ==
    /\ aborted = "none"
    /\ calls < MaxCalls
    /\ LET r == SplitPacketIntoFragments(sequence, Bytes("payload", 0, packetSize),
                                         packetSize, failing, misdelete)
       IN /\ fragmentPackets' = r.fragmentPackets
          /\ sentPacket' = [sequence |-> sequence, size |-> packetSize]
          /\ delivered' = [k \in 1 .. r.numFragments |-> 0]
          /\ roundTrip' = IF r.ret /\ NoValidEntry(packetBuffer)
                          THEN "delivering" ELSE "other"
          /\ Called("SplitPacketIntoFragments", r.ret, 0, r.abort)
    /\ UNCHANGED <<packetBuffer, packets, heap>>

\* a call of packetBuffer.ProcessFragment
DoProcessFragment(sequence, shape) ==
    /\ aborted = "none"
    /\ ~IsWithheld(sequence, shape.n, shape.id)
    /\ LET r == ProcessFragment(packetBuffer, RawData(shape.size), shape.size,
                                sequence, shape.id, shape.n)
       IN /\ packetBuffer' = r.pb
          /\ heap' = heap + r.allocated - r.freed
          /\ Called("ProcessFragment", r.ret, r.error, r.abort)
    /\ roundTrip' = "other"
    /\ UNCHANGED <<fragmentPackets, sentPacket, packets, delivered>>

CallProcessFragment(sequence, shape) ==
    /\ calls < MaxCalls
    /\ DoProcessFragment(sequence, shape)

\* a call of packetBuffer.ProcessPacket on fragment packet k of the last split
CallProcessPacket(k, junk) ==
    /\ aborted = "none"
    /\ calls < MaxCalls
    /\ ~IsWithheld(fragmentPackets[k].sequence, fragmentPackets[k].numFragments,
                   fragmentPackets[k].fragmentId)
    /\ LET r == ProcessPacket(packetBuffer, fragmentPackets[k], junk)
       IN /\ packetBuffer' = r.pb
          /\ heap' = heap + r.allocated - r.freed
          /\ Called("ProcessPacket", r.ret, r.error, r.abort)
    /\ delivered' = [delivered EXCEPT ![k] = @ + 1]
    /\ roundTrip' = IF roundTrip = "delivering" /\ delivered[k] = 0
                    THEN "delivering" ELSE "other"
    /\ UNCHANGED <<fragmentPackets, sentPacket, packets>>

\* what the network can do to a fragment packet on its way
Damages == {"crc32", "payload", "truncated", "oversized"}

\* the buffer ProcessPacket is given when the fragment packet was damaged:
\* another checksum, other payload bytes, the bytes after the header cut
\* off, or more than MaxFragmentSize bytes after the header
Damaged(packet, damage) ==
    CASE damage = "crc32" ->
             [packet EXCEPT !.crc32 = (@ + 1) % 1073741824]
      [] damage = "payload" ->
             [packet EXCEPT !.data = Bytes("raw", 0, RunsLen(packet.data))]
      [] damage = "truncated" ->
             [packet EXCEPT !.size = EncodedHeaderBytes, !.data = <<>>]
      [] damage = "oversized" ->
             [packet EXCEPT
                 !.size = EncodedHeaderBytes + MaxFragmentSize + 1,
                 !.alloc = EncodedHeaderBytes + MaxFragmentSize + 1,
                 !.data = packet.data
                              \o Bytes("raw", 0, MaxFragmentSize + 1 - RunsLen(packet.data))]
      [] OTHER -> packet

\* a call of packetBuffer.ProcessPacket on a damaged copy of fragment packet k
\* of the last split
CallProcessDamagedPacket(k, damage, junk) ==
    /\ aborted = "none"
    /\ calls < MaxCalls
    /\ ~IsWithheld(fragmentPackets[k].sequence, fragmentPackets[k].numFragments,
                   fragmentPackets[k].fragmentId)
    /\ LET r == ProcessPacket(packetBuffer, Damaged(fragmentPackets[k], damage), junk)
       IN /\ packetBuffer' = r.pb
          /\ heap' = heap + r.allocated - r.freed
          /\ Called("ProcessPacket", r.ret, r.error, r.abort)
    /\ roundTrip' = "other"
    /\ UNCHANGED <<fragmentPackets, sentPacket, packets, delivered>>

\* a call of packetBuffer.ReceivePackets
CallReceivePackets(junk, overrun) ==
    /\ aborted = "none"
    /\ calls < MaxCalls
    /\ LET r == ReceivePackets(packetBuffer, junk, overrun)
       IN /\ packetBuffer' = r.pb
          /\ heap' = heap - r.freed
          /\ packets' = r.packets
          /\ Called("ReceivePackets", r.abort = "none", 0, r.abort)
          /\ roundTrip' = IF /\ roundTrip = "delivering"
                             /\ \A k \in 1 .. Len(delivered) : delivered[k] = 1
                             /\ r.abort = "none"
                          THEN "received" ELSE "other"
    /\ UNCHANGED <<fragmentPackets, sentPacket, delivered>>

Next ==
    \/ \E sequence \in SplitSequences, packetSize \in PacketSizes,
          failing \in Failing, misdelete \in {"crash", "unnoticed"} :
           Split(sequence, packetSize, failing, misdelete)
    \/ \E sequence \in Sequences, shape \in FragmentShapes :
           CallProcessFragment(sequence, shape)
    \/ \E k \in 1 .. NumFragments, junk \in JunkSources :
           CallProcessPacket(k, junk)
    \/ \E k \in 1 .. NumFragments, damage \in Damages, junk \in JunkSources :
           CallProcessDamagedPacket(k, damage, junk)
    \/ \E junk \in JunkSources, overrun \in {"crash", "unnoticed"} :
           CallReceivePackets(junk, overrun)

Spec == Init /\ [][Next]_vars

(***************************************************************************)
(* The network withholds one fragment: a behaviour of SpecLoss is a        *)
(* behaviour of the program in which that fragment is never delivered.     *)
(***************************************************************************)
WithheldChoices ==
    {[sequence |-> 0, n |-> 2, id |-> 1],
     [sequence |-> 0, n |-> 1, id |-> 0],
     [sequence |-> 1, n |-> 2, id |-> 0]}

InitLoss == \E w \in WithheldChoices : InitWith(NewPacketBuffer, w)

SpecLoss == InitLoss /\ [][Next]_vars

(***************************************************************************)
(* The buffer at the wrap of the sequence numbers.  WrappedPacketBuffer is *)
(* the buffer after the calls that bring a new buffer to currentSequence   *)
(* 65535 with no entry left: for each sequence of WrapRounds a packet of   *)
(* one fragment is accepted and then drained.                              *)
(***************************************************************************)
WrapRounds == <<10240, 20480, 30720, 40960, 51200, 61440, 65535>>

RECURSIVE AfterRounds(_, _)
AfterRounds(pb, rounds) ==
    IF rounds = <<>> THEN pb
    ELSE AfterRounds(
             ReceivePackets(
                 ProcessFragment(pb, RawData(1), 1, Head(rounds), 0, 1).pb,
                 "junk0", "crash").pb,
             Tail(rounds))

WrappedPacketBuffer == AfterRounds(NewPacketBuffer, WrapRounds)

InitWrap == InitWith(WrappedPacketBuffer, NothingWithheld)

SpecWrap == InitWrap /\ [][Next]_vars

(***************************************************************************)
(* A sender that fills the buffer: packets of MaxFragmentsPerPacket - 1    *)
(* fragments for the sequences 65535, 65534, ..., their fragments handed   *)
(* to ProcessFragment in order, and nothing drained.                       *)
(***************************************************************************)
FillNumFragments == MaxFragmentsPerPacket - 1

FillShape(k) ==
    [n    |-> FillNumFragments,
     id   |-> k % FillNumFragments,
     size |-> IF k % FillNumFragments = FillNumFragments - 1 THEN 1
              ELSE MaxFragmentSize]

FillStep ==
    /\ calls < MaxFill
    /\ DoProcessFragment(U16(65535 - (calls \div FillNumFragments)), FillShape(calls))

SpecFill == Init /\ [][FillStep]_vars

(***************************************************************************)
(* A sender that only splits packets: SplitPacketIntoFragments on payloads *)
(* of the sizes around the multiples of MaxFragmentSize, of 2500 bytes,    *)
(* and of the largest sizes it takes.                                      *)
(***************************************************************************)
SplitterSequences == {0, 65281, 65535}

SplitterSizes ==
    {1, MaxFragmentSize - 1, MaxFragmentSize, MaxFragmentSize + 1,
     2 * MaxFragmentSize, 2500,
     (MaxFragmentsPerPacket - 1) * MaxFragmentSize,
     (MaxFragmentsPerPacket - 1) * MaxFragmentSize + 1,
     MaxPacketSize - 1}

SplitStep ==
    \E sequence \in SplitterSequences, packetSize \in SplitterSizes :
        Split(sequence, packetSize, -1, "unnoticed")

SpecSplit == Init /\ [][SplitStep]_vars

(***************************************************************************)
(* What the properties speak of.                                           *)
(***************************************************************************)
\* the fragment buffers <<index, fragmentId>> the entries hold
BufferedFragments(pb) ==
    UNION {{<<i, j>> : j \in DOMAIN pb.entries[i].fragmentData} : i \in DOMAIN pb.entries}

\* sequence lies in [currentSequence - W + 1, currentSequence]
InWindow(sequence, currentSequence) ==
    /\ sequence_difference(currentSequence, sequence) >= 0
    /\ sequence_difference(currentSequence, sequence) < PacketBufferSize

\* a fragment that passes the tests on its own fields
WellFormed(shape) ==
    /\ shape.size > 0 /\ shape.size <= MaxFragmentSize
    /\ shape.n > 0 /\ shape.n < MaxFragmentsPerPacket
    /\ shape.id >= 0 /\ shape.id < shape.n
    /\ (shape.id # shape.n - 1 => shape.size = MaxFragmentSize)

\* what ProcessFragment does with the fragment in the state at hand
Offered(sequence, shape) ==
    ProcessFragment(packetBuffer, RawData(shape.size), shape.size, sequence,
                    shape.id, shape.n)

\* the entry of sequence is bound to it
Bound(pb, sequence) ==
    /\ ValidAt(pb, sequence % PacketBufferSize)
    /\ EntryAt(pb, sequence % PacketBufferSize).sequence = sequence

\* differences between the sequence of a fragment and currentSequence, on
\* both sides of 10 * PacketBufferSize and of 10 * 1024, ahead and behind
Distances ==
    {-10241, -2561, -1, 0, 1, 10 * PacketBufferSize, 10 * PacketBufferSize + 1,
     10 * 1024, 10 * 1024 + 1, 32767}

\* the indices of the valid entries bound to a sequence of the window with
\* all their fragments received
CompleteEntries(pb) ==
    {i \in pb.valid :
        /\ InWindow(EntryAt(pb, i).sequence, pb.currentSequence)
        /\ EntryAt(pb, i).receivedFragments = EntryAt(pb, i).numFragments}

\* the fragments an entry holds for the fragment ids j .. numFragments-1,
\* one after the other
RECURSIVE StoredFrom(_, _)
StoredFrom(entry, j) ==
    IF j >= entry.numFragments THEN <<>>
    ELSE (IF HasFragmentData(entry, j)
          THEN Slice(entry.fragmentData[j], 0, FragmentSizeAt(entry, j))
          ELSE <<>>) \o StoredFrom(entry, j + 1)

(***************************************************************************)
(* C1.  Round trip: a packet split, all its fragment packets handed once   *)
(* each, in any order, to a buffer with no entry, and the buffer drained,  *)
(* comes back as one packet with the size and the bytes of the original.   *)
(* The code does not do this.                                              *)
(***************************************************************************)
C1_RoundTrip ==
    roundTrip = "received" =>
        /\ Len(packets) = 1
        /\ packets[1].size = sentPacket.size
        /\ Expand(packets[1].data) = Expand(Bytes("payload", 0, sentPacket.size))

(***************************************************************************)
(* C2.  Capacity: the buffer never holds more than MaxBufferedFragments    *)
(* fragments, and when it holds that many ProcessFragment rejects every    *)
(* fragment.  The code does not do this.                                   *)
(***************************************************************************)
C2_CapacityEnforced ==
    /\ Cardinality(BufferedFragments(packetBuffer)) <= MaxBufferedFragments
    /\ Cardinality(BufferedFragments(packetBuffer)) = MaxBufferedFragments =>
           /\ \A sequence \in Sequences, shape \in FragmentShapes :
                  ~Offered(sequence, shape).ret
           /\ \A k \in 0 .. MaxFill :
                  ~Offered(U16(65535 - (k \div FillNumFragments)), FillShape(k)).ret

(***************************************************************************)
(* C3.  A call that advances currentSequence to a newer sequence unbinds   *)
(* the entries older than the new window and leaves every entry inside the *)
(* new window as it was.  The code does not do this.                       *)
(***************************************************************************)
C3_AdvanceEvictsOnlyOld ==
    [][(/\ calls' = calls + 1
        /\ aborted' = "none"
        /\ sequence_greater_than(packetBuffer'.currentSequence,
                                 packetBuffer.currentSequence))
       => \A i \in packetBuffer.valid :
              IF InWindow(EntryAt(packetBuffer, i).sequence,
                          packetBuffer'.currentSequence)
              THEN /\ ValidAt(packetBuffer', i)
                   /\ EntryAt(packetBuffer', i) = EntryAt(packetBuffer, i)
              ELSE ~ValidAt(packetBuffer', i)]_vars

(***************************************************************************)
(* C4.  Window membership: every valid entry is bound to a sequence in     *)
(* [currentSequence - W + 1, currentSequence].  The code does not keep     *)
(* this.                                                                   *)
(***************************************************************************)
C4_WindowMembership ==
    \A i \in packetBuffer.valid :
        InWindow(EntryAt(packetBuffer, i).sequence, packetBuffer.currentSequence)

(***************************************************************************)
(* C5.  Count accounting: PacketBuffer::numFragments is the number of      *)
(* fragment buffers the entries hold, and is never negative.  The code     *)
(* does not keep this.                                                     *)
(***************************************************************************)
C5_CountAccounting ==
    /\ packetBuffer.numFragments = Cardinality(BufferedFragments(packetBuffer))
    /\ packetBuffer.numFragments >= 0

(***************************************************************************)
(* C6.  A call of ProcessFragment (made directly or by ProcessPacket)      *)
(* that returns false leaves the whole PacketBuffer as it was.             *)
(***************************************************************************)
C6_RejectionNoSideEffects ==
    [][(/\ calls' = calls + 1
        /\ lastCall'.op \in {"ProcessFragment", "ProcessPacket"}
        /\ ~lastCall'.ret
        /\ aborted' = "none") => packetBuffer' = packetBuffer]_vars

C6_Witness ==
    /\ lastCall.op = "ProcessFragment"
    /\ ~lastCall.ret
    /\ lastCall.error = 8
    /\ aborted = "none"
    /\ packetBuffer.valid # {}

(***************************************************************************)
(* C7.  Duplicates: a fragment the entry of its sequence already holds     *)
(* (same sequence, fragmentId, numFragments and size, the entry still      *)
(* bound to the sequence) is rejected, and the PacketBuffer, with the      *)
(* entry's receivedFragments, its fragments and the count, is unchanged.   *)
(***************************************************************************)
C7_DuplicateRejected ==
    \A sequence \in Sequences, shape \in FragmentShapes :
        (/\ Bound(packetBuffer, sequence)
         /\ EntryAt(packetBuffer, sequence % PacketBufferSize).numFragments = shape.n
         /\ shape.size > 0
         /\ FragmentSizeAt(EntryAt(packetBuffer, sequence % PacketBufferSize), shape.id)
                = shape.size)
        => /\ Offered(sequence, shape).abort = "none"
           /\ ~Offered(sequence, shape).ret
           /\ Offered(sequence, shape).pb = packetBuffer

C7_Witness ==
    /\ lastCall.op = "ProcessFragment"
    /\ ~lastCall.ret
    /\ lastCall.error = 10
    /\ \E sequence \in Sequences :
           /\ Bound(packetBuffer, sequence)
           /\ EntryAt(packetBuffer, sequence % PacketBufferSize).receivedFragments = 1

(***************************************************************************)
(* C8.  Conflicting declaration: a fragment for a sequence whose entry is  *)
(* bound to it, with a numFragments other than the entry's, is rejected    *)
(* and the PacketBuffer is unchanged.                                      *)
(***************************************************************************)
C8_ConflictRejected ==
    \A sequence \in Sequences, shape \in FragmentShapes :
        (/\ Bound(packetBuffer, sequence)
         /\ EntryAt(packetBuffer, sequence % PacketBufferSize).numFragments # shape.n)
        => /\ Offered(sequence, shape).abort = "none"
           /\ ~Offered(sequence, shape).ret
           /\ Offered(sequence, shape).pb = packetBuffer

C8_Witness ==
    /\ lastCall.op = "ProcessFragment"
    /\ ~lastCall.ret
    /\ lastCall.error = 9
    /\ packetBuffer.valid # {}

(***************************************************************************)
(* C9.  Partial loss: while one fragment of a packet is never delivered,   *)
(* no call of ReceivePackets returns a packet with the sequence and the    *)
(* numFragments of that packet.                                            *)
(***************************************************************************)
C9_WithheldNeverReturned ==
    \A k \in 1 .. Len(packets) :
        ~(/\ withheld.n > 0
          /\ packets[k].sequence = withheld.sequence
          /\ packets[k].numFragments = withheld.n)

C9_Witness ==
    /\ withheld.n = 2
    /\ lastCall.op = "ReceivePackets"
    /\ aborted = "none"
    /\ Bound(packetBuffer, withheld.sequence)
    /\ EntryAt(packetBuffer, withheld.sequence % PacketBufferSize).numFragments = 2
    /\ EntryAt(packetBuffer, withheld.sequence % PacketBufferSize).receivedFragments = 1

(***************************************************************************)
(* C10.  Wraparound: at currentSequence 65535 a well-formed fragment for   *)
(* sequence 0 whose entry is not valid counts as newer and is accepted,    *)
(* currentSequence becomes 0, the entries unbound are exactly those bound  *)
(* outside [65281, 0], and the fragment is stored in entry 0.  The code    *)
(* does not do this.                                                       *)
(***************************************************************************)
C10_Wraparound ==
    (packetBuffer.currentSequence = 65535 /\ ~ValidAt(packetBuffer, 0)) =>
        \A shape \in {x \in FragmentShapes : WellFormed(x)} :
            LET r == Offered(0, shape) IN
            /\ sequence_greater_than(0, 65535)
            /\ r.abort = "none"
            /\ r.ret
            /\ r.pb.currentSequence = 0
            /\ \A i \in packetBuffer.valid :
                   ValidAt(r.pb, i) <=> InWindow(EntryAt(packetBuffer, i).sequence, 0)
            /\ ValidAt(r.pb, 0)
            /\ FragmentSizeAt(EntryAt(r.pb, 0), shape.id) = shape.size

(***************************************************************************)
(* C11.  Ownership of the fragment buffers: every fragment buffer          *)
(* ProcessFragment allocated and nothing released is held by one entry at  *)
(* its fragmentId, so the buffers allocated and not released are as many   *)
(* as the entries hold: no call takes a buffer out of an entry without     *)
(* releasing it.  The code does not do this.                               *)
(***************************************************************************)
C11_NoLeak ==
    heap = Cardinality(BufferedFragments(packetBuffer))

(***************************************************************************)
(* C12.  The largest number of fragments: a fragment that declares         *)
(* numFragments = MaxFragmentsPerPacket and passes every other test (its   *)
(* entry free, its sequence in range, room in the buffer) is accepted, the *)
(* entry records MaxFragmentsPerPacket fragments, and so does the          *)
(* numFragments field of the fragment packets of a packet split into       *)
(* MaxFragmentsPerPacket fragments.  The code does not do this.            *)
(***************************************************************************)
C12_MaxFragmentsAccepted ==
    /\ \A sequence \in Sequences :
           LET shape == [n |-> MaxFragmentsPerPacket, id |-> 0, size |-> MaxFragmentSize]
               index == sequence % PacketBufferSize
               r     == Offered(sequence, shape)
           IN (/\ ~ValidAt(packetBuffer, index)
               /\ sequence_difference(sequence, packetBuffer.currentSequence) <= 10 * 1024
               /\ Cardinality(BufferedFragments(packetBuffer)) < MaxBufferedFragments)
              => /\ r.abort = "none"
                 /\ r.ret
                 /\ EntryAt(r.pb, index).numFragments = MaxFragmentsPerPacket
    /\ LET split == SplitPacketIntoFragments(0, Bytes("payload", 0, MaxPacketSize - 1),
                                             MaxPacketSize - 1, -1, "unnoticed")
       IN /\ split.ret
          /\ split.numFragments = MaxFragmentsPerPacket
          /\ split.fragmentPackets[1].numFragments = MaxFragmentsPerPacket

(***************************************************************************)
(* C13.  Malformed wire data: a buffer whose checksum is not the checksum  *)
(* of its contents, or whose header leaves a fragment of no byte or of     *)
(* more than MaxFragmentSize bytes, is rejected by ProcessPacket, and the  *)
(* PacketBuffer (currentSequence, the count, every entry) is unchanged.    *)
(***************************************************************************)
C13_MalformedRejected ==
    \A k \in 1 .. NumFragments, damage \in Damages \cup {"none"},
       junk \in JunkSources :
        LET packet == Damaged(fragmentPackets[k], damage)
            r      == ProcessPacket(packetBuffer, packet, junk)
        IN (\/ packet.crc32 # PacketChecksum(packet.sequence, packet.packetType,
                                             packet.fragmentId, packet.numFragments,
                                             packet.data)
            \/ packet.size - EncodedHeaderBytes <= 0
            \/ packet.size - EncodedHeaderBytes > MaxFragmentSize)
           => /\ r.abort = "none"
              /\ ~r.ret
              /\ r.pb = packetBuffer

C13_Witness ==
    /\ lastCall.op = "ProcessPacket"
    /\ ~lastCall.ret
    /\ lastCall.error = 12
    /\ packetBuffer.valid # {}
    /\ \E k \in 1 .. NumFragments :
           ProcessPacket(packetBuffer, fragmentPackets[k], "junk0").ret

(***************************************************************************)
(* C14.  The sizes the Splitter takes: a call of SplitPacketIntoFragments  *)
(* with 0 < packetSize <= MaxPacketSize fails none of the assertions on    *)
(* its arguments.  The code does not do this.                              *)
(***************************************************************************)
C14_SplitterInputRange ==
    (/\ lastCall.op = "SplitPacketIntoFragments"
     /\ sentPacket.size > 0
     /\ sentPacket.size <= MaxPacketSize)
    => aborted \notin {"assert packetSize > 0", "assert packetSize < MaxPacketSize",
                       "assert numFragments > 0",
                       "assert numFragments <= MaxFragmentsPerPacket"}

(***************************************************************************)
(* C15.  All or nothing: when the encoding of fragment i fails, the split  *)
(* returns false and reports no fragment, and the fragment packets         *)
(* 0 .. i-1 it had produced are released and reset (data null, size 0).    *)
(* The code does not do this.                                              *)
(***************************************************************************)
C15_SplitAllOrNothing ==
    (/\ lastCall.op = "SplitPacketIntoFragments"
     /\ ~lastCall.ret
     /\ aborted = "none")
    => /\ NumFragments = 0
       /\ \A k \in 1 .. (Len(fragmentPackets) - 1) :
              /\ fragmentPackets[k].alloc = 0
              /\ fragmentPackets[k].size = 0

(***************************************************************************)
(* C16.  Every valid entry has receivedFragments <= numFragments, and      *)
(* receivedFragments is the number of the fragment ids below numFragments  *)
(* for which the entry holds a fragment (a size that is not 0).            *)
(***************************************************************************)
C16_ReceivedFragmentsCount ==
    \A i \in packetBuffer.valid :
        LET entry == EntryAt(packetBuffer, i) IN
        /\ entry.receivedFragments <= entry.numFragments
        /\ entry.receivedFragments =
               Cardinality({j \in 0 .. (entry.numFragments - 1) :
                               FragmentSizeAt(entry, j) # 0})

C16_Witness ==
    /\ lastCall.op \in {"ProcessFragment", "ProcessPacket"}
    /\ lastCall.ret
    /\ \E i \in packetBuffer.valid :
           /\ EntryAt(packetBuffer, i).numFragments = 2
           /\ EntryAt(packetBuffer, i).receivedFragments = 2

(***************************************************************************)
(* C17.  Reconstruction: every packet a call of ReceivePackets returns is  *)
(* the fragments its entry held for the fragment ids 0, 1, ...,            *)
(* numFragments-1, in that order, each with its own size, and its size is  *)
(* the sum of those sizes, wherever its sequence lies in the window.  The  *)
(* code does not do this.                                                  *)
(***************************************************************************)
C17_DrainReconstruction ==
    [][(/\ calls' = calls + 1
        /\ lastCall'.op = "ReceivePackets"
        /\ aborted' = "none")
       => \A k \in 1 .. Len(packets') :
              LET entry == EntryAt(packetBuffer, packets'[k].sequence % PacketBufferSize)
              IN /\ packets'[k].size = RunsLen(StoredFrom(entry, 0))
                 /\ Expand(packets'[k].data) = Expand(StoredFrom(entry, 0))]_vars

(***************************************************************************)
(* C18.  Sequences out of range, as claimed: ProcessFragment rejects,      *)
(* leaving the PacketBuffer as it was, every fragment whose sequence lies  *)
(* more than 10 * PacketBufferSize = 2560 from currentSequence (the        *)
(* difference of the two as sequence numbers), and this test rejects no    *)
(* fragment at 2560 or less.  The code does not do this: its limit is      *)
(* 10 * 1024.                                                              *)
(***************************************************************************)
C18_OutOfRangeWindow ==
    \A d \in Distances, shape \in {x \in FragmentShapes : WellFormed(x)} :
        LET sequence == U16(packetBuffer.currentSequence + d)
            r        == Offered(sequence, shape)
        IN IF d > 10 * PacketBufferSize
           THEN /\ ~r.ret
                /\ r.abort = "none"
                /\ r.pb = packetBuffer
           ELSE r.error # 7

(***************************************************************************)
(* C18, amended.  ProcessFragment rejects, leaving the PacketBuffer as it  *)
(* was, every fragment whose sequence is more than 10 * 1024 = 10240       *)
(* ahead of currentSequence, and this test rejects no fragment whose       *)
(* difference to currentSequence is 10240 or less.                         *)
(***************************************************************************)
C18_OutOfRangeRejected ==
    \A d \in Distances, shape \in {x \in FragmentShapes : WellFormed(x)} :
        LET sequence == U16(packetBuffer.currentSequence + d)
            r        == Offered(sequence, shape)
        IN IF d > 10 * 1024
           THEN /\ ~r.ret
                /\ r.error = 7
                /\ r.abort = "none"
                /\ r.pb = packetBuffer
           ELSE r.error # 7

C18_Witness ==
    /\ lastCall.op = "ProcessFragment"
    /\ ~lastCall.ret
    /\ lastCall.error = 7
    /\ packetBuffer.valid # {}

(***************************************************************************)
(* C19.  Order and completeness of a drain: a call of ReceivePackets       *)
(* returns the packets of all the valid entries bound to a sequence of     *)
(* [currentSequence - W + 1, currentSequence] that have all their          *)
(* fragments, each once, the older sequence first, and leaves each of      *)
(* these entries not valid and without a fragment.                         *)
(***************************************************************************)
C19_DrainOrderComplete ==
    [][(/\ calls' = calls + 1
        /\ lastCall'.op = "ReceivePackets"
        /\ aborted' = "none")
       => LET complete == CompleteEntries(packetBuffer) IN
          /\ {packets'[k].sequence : k \in 1 .. Len(packets')}
                 = {EntryAt(packetBuffer, i).sequence : i \in complete}
          /\ Len(packets') = Cardinality(complete)
          /\ \A k \in 1 .. (Len(packets') - 1) :
                 sequence_less_than(packets'[k].sequence, packets'[k + 1].sequence)
          /\ \A i \in complete :
                 /\ ~ValidAt(packetBuffer', i)
                 /\ EntryAt(packetBuffer', i) = ZeroEntry]_vars

C19_Witness ==
    /\ lastCall.op = "ReceivePackets"
    /\ aborted = "none"
    /\ Len(packets) = 2
    /\ sequence_less_than(packets[1].sequence, packets[2].sequence)

(***************************************************************************)
(* C20.  What a drain leaves alone: a call of ReceivePackets does not      *)
(* change currentSequence, and every valid entry with fewer fragments      *)
(* received than numFragments stays valid and is afterwards what it was    *)
(* (sequence, numFragments, receivedFragments, its fragments).             *)
(***************************************************************************)
C20_ReceivePacketsFrame ==
    [][(/\ calls' = calls + 1
        /\ lastCall'.op = "ReceivePackets"
        /\ aborted' = "none")
       => /\ packetBuffer'.currentSequence = packetBuffer.currentSequence
          /\ \A i \in packetBuffer.valid :
                 EntryAt(packetBuffer, i).receivedFragments
                     < EntryAt(packetBuffer, i).numFragments
                 => /\ ValidAt(packetBuffer', i)
                    /\ EntryAt(packetBuffer', i) = EntryAt(packetBuffer, i)]_vars

C20_Witness ==
    /\ lastCall.op = "ReceivePackets"
    /\ aborted = "none"
    /\ Len(packets) = 1
    /\ \E i \in packetBuffer.valid :
           /\ EntryAt(packetBuffer, i).numFragments = 2
           /\ EntryAt(packetBuffer, i).receivedFragments = 1

(***************************************************************************)
(* C21.  The fragments of a split: for 0 < packetSize < MaxPacketSize the  *)
(* call succeeds and produces ceil(packetSize / MaxFragmentSize) fragment  *)
(* packets, with the fragment ids 0, 1, ... in order, each carrying the    *)
(* sequence of the packet and that number of fragments; every fragment     *)
(* but the last has MaxFragmentSize bytes of payload, the last between 1   *)
(* and MaxFragmentSize, and the payload sizes add up to packetSize.  The   *)
(* code does not do this.                                                  *)
(***************************************************************************)
C21_SplitterSizes ==
    (/\ lastCall.op = "SplitPacketIntoFragments"
     /\ sentPacket.size > 0
     /\ sentPacket.size < MaxPacketSize)
    => LET n == (sentPacket.size + MaxFragmentSize - 1) \div MaxFragmentSize IN
       /\ aborted = "none"
       /\ lastCall.ret
       /\ NumFragments = n
       /\ Len(fragmentPackets) = n
       /\ \A k \in 1 .. Len(fragmentPackets) :
              /\ fragmentPackets[k].fragmentId = k - 1
              /\ fragmentPackets[k].sequence = sentPacket.sequence
              /\ fragmentPackets[k].numFragments = n
              /\ RunsLen(fragmentPackets[k].data) >= 1
              /\ RunsLen(fragmentPackets[k].data) <= MaxFragmentSize
              /\ k < n => RunsLen(fragmentPackets[k].data) = MaxFragmentSize
       /\ RunsLen(fragmentPackets[n].data) = sentPacket.size - (n - 1) * MaxFragmentSize

(***************************************************************************)
(* C22.  The payload ProcessPacket extracts: for a fragment packet of the  *)
(* last split that ProcessPacket accepts, the bytes stored in the entry    *)
(* are the bytes that follow the encoded header (as many as the buffer     *)
(* has left after it), which are the payload bytes the split wrote, and    *)
(* no byte past the end of the buffer is read.  The code does not do this. *)
(***************************************************************************)
C22_PayloadExtraction ==
    \A k \in 1 .. NumFragments, junk \in JunkSources :
        LET packet == fragmentPackets[k]
            r      == ProcessPacket(packetBuffer, packet, junk)
            entry  == EntryAt(r.pb, packet.sequence % PacketBufferSize)
        IN (r.ret /\ packet.packetType = 0)
           => /\ FragmentSizeAt(entry, packet.fragmentId) = packet.size - EncodedHeaderBytes
              /\ Expand(entry.fragmentData[packet.fragmentId]) = Expand(packet.data)
              /\ PacketFragmentHeaderBytes + SerializeRead(packet).fragmentSize
                     <= packet.size

(***************************************************************************)
(* C23.  The assertion of Advance: in no execution made of calls of        *)
(* ProcessFragment and ReceivePackets does assert( numFragments > 0 )      *)
(* fail when Advance releases a fragment of an entry it evicts.  The code  *)
(* does not keep this.                                                     *)
(***************************************************************************)
C23_EvictionAssertion ==
    aborted # "assert numFragments > 0"

====
